---- MODULE Spec2Model ----
(***************************************************************************)
(* Model of the cuite-reactive runtime (crates/cuite-reactive): signals,   *)
(* effects, the subscriber/source graph, the ownership maps, dirty         *)
(* propagation and the pull-based update scheduler.                        *)
(*                                                                         *)
(* Every function of runtime.rs / signal.rs / effect.rs is one operator.   *)
(* An operator takes the runtime as a record R and returns the SET of      *)
(* runtimes the call can end in: AHashSet iteration order is unspecified,  *)
(* so every loop over a hash set branches over the order.  A panic is      *)
(* recorded in R.fault and unwinds (every later step of the call is        *)
(* skipped).                                                               *)
(***************************************************************************)
EXTENDS Integers, Sequences, FiniteSets, TLC

\* ---- bounds of the model ------------------------------------------------
MaxNodes == 3        \* a top-level create_* needs a key <= MaxNodes
MaxVal == 1          \* signal values are 0..MaxVal
MaxCalls == 4        \* top-level API calls in one behaviour
MaxGraphNodes == 4   \* as MaxNodes, for the crate-level graphs of SpecGraph
MaxGraphCalls == 5   \* as MaxCalls, for SpecGraph
MaxDepth == 6        \* nested update_if_necessary / effect runs on the call stack

NoNode == 0          \* Option<NodeId>::None
Absent == -1         \* Option<value>::None

Values == 0..MaxVal

VARIABLES
    nodes,             \* Runtime.nodes: live NodeId -> Node
    node_subscribers,  \* Runtime.node_subscribers
    node_sources,      \* Runtime.node_sources
    node_parents,      \* Runtime.node_parents
    node_children,     \* Runtime.node_children
    scope,             \* Runtime.scope
    observer,          \* Runtime.observer
    pending_effects,   \* Runtime.pending_effects
    next_key,          \* the key the slot map hands out next
    fault,             \* "none", or the panic that ended the last call
    handles,           \* ids of the Signal handles issued so far
    calls,             \* number of top-level calls made
    last,              \* the last top-level call: [op, id, val, ret, key] and
                       \* what it did to the queue (requeued, rerun, twice)
    trace,             \* events of the last call: <<"start", effect, old output>>,
                       \* <<"end", effect, new output>>, <<"write", signal, value>>,
                       \* <<"track", observer, node>>, <<"create", node, scope>>
    log,               \* per effect: the values its reads returned, in order
    hist               \* per node: the scope it was created under; per signal
                       \* its writes, per effect the writes made before it

vars == <<nodes, node_subscribers, node_sources, node_parents, node_children,
          scope, observer, pending_effects, next_key, fault, handles, calls,
          last, trace, log, hist>>

\* ---- NodeState (node.rs) ------------------------------------------------
\* #[derive(PartialOrd, Ord)]: Clean < Check < Dirty < DirtyMarked
NodeState == {"Clean", "Check", "Dirty", "DirtyMarked"}

StateRank(s) ==
    CASE s = "Clean" -> 0
      [] s = "Check" -> 1
      [] s = "Dirty" -> 2
      [] s = "DirtyMarked" -> 3

Node(value, state, kind, computation) ==
    [value |-> value, state |-> state, kind |-> kind, computation |-> computation]

\* ---- small helpers over maps -------------------------------------------
\* SecondaryMap::get(k) with a default for a missing key
MapGet(m, k, d) == IF k \in DOMAIN m THEN m[k] ELSE d

\* SecondaryMap::insert / entry(k).or_default() followed by a store
MapPut(m, k, v) == [x \in DOMAIN m \cup {k} |-> IF x = k THEN v ELSE m[x]]

\* SecondaryMap::remove(k)
MapRemove(m, k) == [x \in DOMAIN m \ {k} |-> m[x]]

\* a panic: the call unwinds, nothing after it runs
Panic(R, what) == [R EXCEPT !.fault = what]

\* the call has ended (panic) or left the model's bounds
Stopped(R) == R.fault # "none" \/ R.exceeded

\* ---- Runtime (runtime.rs) -----------------------------------------------
\* The runtime as one record: the fields of struct Runtime, the slot map's
\* next key, the call's panic status, the history the properties read, and
\* what lives on the call stack during one call (depth, ret, the
\* RefCell borrow flag of node_children, the number of run_effects calls
\* that are draining), and a record of what mark_descendants_dirty did: the
\* nodes it has visited in its current call (seen), whether it visited one
\* twice, the effects it queued while run_effects was draining (requeued)
\* and those of them that ran afterwards (rerun).
RT ==
    [nodes |-> nodes, node_subscribers |-> node_subscribers,
     node_sources |-> node_sources, node_parents |-> node_parents,
     node_children |-> node_children, scope |-> scope, observer |-> observer,
     pending_effects |-> pending_effects, next_key |-> next_key,
     fault |-> "none", handles |-> handles, trace |-> <<>>, log |-> log,
     hist |-> hist,
     depth |-> 0, ret |-> Absent, children_borrowed |-> FALSE,
     draining |-> 0, seen |-> {}, twice |-> FALSE, requeued |-> {}, rerun |-> {},
     exceeded |-> FALSE]

\* Runtime::create_node: insert into the slot map; under an active scope
\* record the parent, and insert the new id into the children entry *of the
\* new id* (line 77 reads entry(id), not entry(scope)).
create_node(R, node) ==
    LET id == R.next_key
        R1 == [R EXCEPT !.nodes = MapPut(@, id, node), !.next_key = id + 1,
                        !.trace = Append(@, <<"create", id, R.scope>>)]
    IN  IF R.scope # NoNode
        THEN [R1 EXCEPT !.node_parents = MapPut(@, id, R.scope),
                        !.node_children = MapPut(@, id, MapGet(@, id, {}) \cup {id})]
        ELSE R1

\* Runtime::create_signal
create_signal(R, value) == create_node(R, Node(value, "Clean", "Signal", <<>>))

\* Runtime::create_effect: the value cell holds Option<T>::None
create_effect(R, computation) ==
    create_node(R, Node(Absent, "Dirty", "Effect", computation))

\* Runtime::get_node_value
get_node_value(R, id) == IF id \in DOMAIN R.nodes THEN R.nodes[id].value ELSE Absent

\* Runtime::node_state: a missing node reads as Clean
node_state(R, id) == IF id \in DOMAIN R.nodes THEN R.nodes[id].state ELSE "Clean"

\* mark_clean that leaves the state as it is
mark_clean_keeps_state(R, id) == R

\* Runtime::mark_clean
mark_clean(R, id) ==
    IF id \in DOMAIN R.nodes THEN [R EXCEPT !.nodes[id].state = "Clean"] ELSE R

\* ---- mark_descendants_dirty ---------------------------------------------
\* The walk keeps no visited set: a node is skipped only when its state is
\* Check or DirtyMarked, and a Dirty node is left Dirty.  `dirty` is the set
\* of Dirty nodes walked in a row down to the node whose subscribers are
\* being read.  A Dirty child that is already in it closes a cycle of nodes
\* the walk never marks; the subscriber sets do not change during the call,
\* so the walk goes round that cycle again and again, pushing onto the stack
\* and the queue without end: the call never returns ("hang").

\* a walk that queues every Effect it visits, the observer included
queues_any_effect(R, child) == R.nodes[child].kind = "Effect"

\* lines 198-202: a visited Effect is pushed onto the queue unless it is the
\* observer read on line 136 at the start of the call
queues(R, child) == R.nodes[child].kind = "Effect" /\ R.observer # child

RECURSIVE mdd_visit(_, _, _)
\* an inner loop that marks the child and stops, never going on to the
\* child's own subscribers
mdd_visit_one_level(R, child, dirty) ==
    IF child \notin DOMAIN R.nodes \/ node_state(R, child) \in {"Check", "DirtyMarked"}
    THEN [rt |-> R, push |-> {}, dirty |-> dirty]
    ELSE [rt |-> [R EXCEPT !.nodes[child].state = IF @ = "Clean" THEN "Check" ELSE @],
          push |-> {}, dirty |-> dirty]

\* the inner `loop` (lines 182-220) for one child: the runtime afterwards and
\* the set to push as a new iterator ({} for Operation::Continue)
mdd_visit(R, child, dirty) ==
    IF child \notin DOMAIN R.nodes THEN [rt |-> R, push |-> {}, dirty |-> dirty]
    ELSE IF R.nodes[child].state \in {"Check", "DirtyMarked"}
         THEN [rt |-> R, push |-> {}, dirty |-> dirty]
    ELSE IF child \in dirty THEN [rt |-> Panic(R, "hang"), push |-> {}, dirty |-> dirty]
    ELSE
        LET node == R.nodes[child]
            queued == queues(R, child)
            R1 == [R EXCEPT
                     !.nodes[child].state = IF @ = "Clean" THEN "Check" ELSE @,
                     !.pending_effects = IF queued THEN Append(@, child) ELSE @,
                     !.twice = @ \/ child \in R.seen,
                     !.seen = @ \cup {child},
                     !.requeued = IF queued /\ R.draining > 0 THEN @ \cup {child} ELSE @]
            below == IF node.state = "Clean" THEN {} ELSE dirty \cup {child}
            children == MapGet(R.node_subscribers, child, {})
        IN  IF children = {} THEN [rt |-> R1, push |-> {}, dirty |-> below]
            ELSE IF Cardinality(children) = 1
                 THEN mdd_visit(R1, CHOOSE c \in children : TRUE, below)
                 ELSE [rt |-> R1, push |-> children, dirty |-> below]

RECURSIVE mdd_dfs(_, _)
\* the `while let Some(iter) = stack.last_mut()` loop (lines 175-234); an
\* iterator is the set of elements it has not yielded yet
mdd_dfs(R, stack) ==
    IF R.fault # "none" \/ stack = <<>> THEN {R}
    ELSE
        LET top == stack[Len(stack)] IN
        IF top.iter = {} THEN mdd_dfs(R, SubSeq(stack, 1, Len(stack) - 1))
        ELSE UNION {
                LET v == mdd_visit(R, child, top.dirty)
                    rest == [stack EXCEPT ![Len(stack)].iter = @ \ {child}]
                IN  mdd_dfs(v.rt, IF v.push = {} THEN rest
                                  ELSE Append(rest, [iter |-> v.push, dirty |-> v.dirty]))
                : child \in top.iter }

\* Runtime::mark_descendants_dirty
mark_descendants_dirty(R, root_id) ==
    IF root_id \notin DOMAIN R.nodes THEN {R}
    ELSE IF R.nodes[root_id].state = "DirtyMarked" THEN {R}
    ELSE
        LET R1 == [R EXCEPT !.nodes[root_id].state = "DirtyMarked", !.seen = {}]
        IN  IF root_id \notin DOMAIN R.node_subscribers THEN {R1}
            ELSE mdd_dfs(R1, <<[iter |-> R.node_subscribers[root_id], dirty |-> {}]>>)

\* ---- track ----------------------------------------------------------------
\* a track that files the observer under the node and not the node under
\* the observer
track_subscribers_only(R, node_id) ==
    IF R.observer = NoNode THEN R
    ELSE [R EXCEPT
            !.node_subscribers = MapPut(@, node_id, MapGet(@, node_id, {}) \cup {R.observer})]

\* Runtime::track
track(R, node_id) ==
    IF R.observer = NoNode THEN R
    ELSE [R EXCEPT
            !.node_subscribers = MapPut(@, node_id, MapGet(@, node_id, {}) \cup {R.observer}),
            !.node_sources = MapPut(@, R.observer, MapGet(@, R.observer, {}) \cup {node_id}),
            !.trace = Append(@, <<"track", R.observer, node_id>>)]

\* ---- cleanup_children -----------------------------------------------------
\* lines 364-383: remove one child from both adjacency maps, the parent map
\* and the node store
dispose(R, child) ==
    LET subs == MapGet(R.node_subscribers, child, {})
        ns1 == MapRemove(R.node_subscribers, child)
        src1 == [x \in DOMAIN R.node_sources |->
                    IF x \in subs THEN R.node_sources[x] \ {child} ELSE R.node_sources[x]]
        srcs == MapGet(src1, child, {})
        src2 == MapRemove(src1, child)
        ns2 == [x \in DOMAIN ns1 |-> IF x \in srcs THEN ns1[x] \ {child} ELSE ns1[x]]
    IN  [R EXCEPT !.node_subscribers = ns2, !.node_sources = src2,
                  !.node_parents = MapRemove(@, child),
                  !.nodes = MapRemove(@, child)]

RECURSIVE cleanup_children(_, _)
RECURSIVE cleanup_loop(_, _)
\* the `for child in children.into_inner()` loop.  The removals of different
\* children commute and the first recursive call decides a panic, so the
\* order of the hash set does not show in the result.
cleanup_loop(R, children) ==
    IF R.fault # "none" \/ children = {} THEN R
    ELSE
        LET child == CHOOSE c \in children : TRUE
            R1 == cleanup_children(R, child)
        IN  IF R1.fault # "none" THEN R1
            ELSE cleanup_loop(dispose(R1, child), children \ {child})

\* Runtime::cleanup_children.  The RefMut of node_children taken on line 356
\* lives to the end of the function, so the recursive call on line 362 finds
\* the cell already mutably borrowed and panics (BorrowMutError).
cleanup_children(R, node_id) ==
    IF R.fault # "none" THEN R
    ELSE IF R.children_borrowed THEN Panic(R, "BorrowMutError")
    ELSE IF node_id \notin DOMAIN R.node_children THEN R
    ELSE
        LET children == R.node_children[node_id]
            R1 == [R EXCEPT !.node_children = MapRemove(@, node_id),
                            !.children_borrowed = TRUE]
        IN  [cleanup_loop(R1, children) EXCEPT !.children_borrowed = FALSE]

\* ---- effect closures ------------------------------------------------------
\* A closure is a sequence of operations [op, id, val, body] on the handles it
\* captured.  Its output (the effect's new value) is the last value it read,
\* 0 when it read nothing.  The operation "get_if" is a branch of the
\* closure: `if <the value read last> == val { id.get() }`.
ReadOps == {"get", "get_untracked", "with", "with_untracked", "track", "get_if"}

Op(op, id, val, body) == [op |-> op, id |-> id, val |-> val, body |-> body]

\* history of a signal: the scope it was created under, its initial value
\* and every write, in order, with how it was made ("set" from top level,
\* "nested" from inside an effect run, "untracked")
SignalHist(R, init) == [init |-> init, writes |-> <<>>, scope |-> R.scope]

\* history of an effect: the scope it was created under and how many writes
\* each signal had seen at its creation
EffectHist(R) ==
    [born |-> [s \in R.handles |-> Len(R.hist[s].writes)], scope |-> R.scope]

Wrote(R, id, v, how) ==
    [R EXCEPT !.hist[id].writes = Append(@, [val |-> v, how |-> how]),
              !.trace = Append(@, <<"write", id, v>>)]

\* Runtime::with_value(id, f): the value of the node handed to f, Absent for
\* a node that is not in the store
with_value(R, id) == get_node_value(R, id)

\* with_untracked that records the read as a dependency
Signal_with_untracked_tracking(R, id) ==
    LET v == with_value(R, id)
    IN  IF v = Absent THEN Panic(R, "unwrap") ELSE [track(R, id) EXCEPT !.ret = v]

\* Signal::with_untracked (and Signal::with, which has the same body):
\* with_value(..).unwrap()
Signal_with_untracked(R, id) ==
    LET v == with_value(R, id)
    IN  IF v = Absent THEN Panic(R, "unwrap") ELSE [R EXCEPT !.ret = v]

\* Signal::with: lines 41-50 do not call track
Signal_with(R, id) == Signal_with_untracked(R, id)

\* Signal::get_untracked
Signal_get_untracked(R, id) == Signal_with_untracked(R, id)

\* Signal::get: track, then get_untracked
Signal_get(R, id) == Signal_get_untracked(track(R, id), id)

\* an untracked write that marks the signal as a tracked write does
Signal_update_untracked_marking(R, id, v) ==
    LET old == with_value(R, id)
    IN  IF old = Absent THEN Panic(R, "unwrap")
        ELSE [Wrote(R, id, v, "untracked") EXCEPT !.nodes[id].value = v,
                                                  !.nodes[id].state = "DirtyMarked",
                                                  !.ret = old]

\* Signal::update_untracked (set_untracked is update_untracked with
\* mem::replace): returns the previous value
Signal_update_untracked(R, id, v) ==
    LET old == with_value(R, id)
    IN  IF old = Absent THEN Panic(R, "unwrap")
        ELSE [Wrote(R, id, v, "untracked") EXCEPT !.nodes[id].value = v, !.ret = old]

\* Signal::new
Signal_new(R, v) ==
    [create_signal(R, v) EXCEPT !.handles = @ \cup {R.next_key},
                                     !.hist = MapPut(@, R.next_key, SignalHist(R, v)),
                                     !.ret = R.next_key]

\* ---- the update scheduler -------------------------------------------------
\* an update that does not escalate the subscribers
dirty_subscribers_skipped(R, node_id) == R

\* lines 319-331 of Runtime::update: every direct subscriber becomes Dirty
dirty_subscribers(R, node_id) ==
    LET subs == MapGet(R.node_subscribers, node_id, {})
    IN  [R EXCEPT !.nodes = [x \in DOMAIN @ |->
                                IF x \in subs THEN [@[x] EXCEPT !.state = "Dirty"] ELSE @[x]]]

RECURSIVE update_if_necessary(_, _)
RECURSIVE pull_sources(_, _, _)
RECURSIVE update(_, _)
RECURSIVE with_observer(_, _, _)
RECURSIVE Computation_run(_, _, _)
RECURSIVE run_body(_, _, _, _)
RECURSIVE exec_op(_, _, _)
RECURSIVE Signal_update(_, _, _)
RECURSIVE Effect_new(_, _)
RECURSIVE run_effects(_)
RECURSIVE run_effects_loop(_, _)

\* the `for source in sources` loop of update_if_necessary (lines 264-270)
\* over the Vec collected from the hash set: any order, stop once the node
\* is Dirty
pull_sources(R, node_id, sources) ==
    IF Stopped(R) \/ sources = {} THEN {R}
    ELSE UNION {
            UNION { IF Stopped(r) \/ StateRank(node_state(r, node_id)) >= StateRank("Dirty")
                    THEN {r}
                    ELSE pull_sources(r, node_id, sources \ {source})
                    : r \in update_if_necessary(R, source) }
            : source \in sources }

\* Runtime::update_if_necessary
update_if_necessary(R, node_id) ==
    IF Stopped(R) THEN {R}
    ELSE IF R.depth >= MaxDepth THEN {[R EXCEPT !.exceeded = TRUE]}
    ELSE
        LET R0 == [R EXCEPT !.depth = @ + 1]
            pulled ==
                IF node_state(R0, node_id) = "Check" /\ node_id \in DOMAIN R0.node_sources
                THEN pull_sources(R0, node_id, R0.node_sources[node_id])
                ELSE {R0}
            updated ==
                UNION { IF Stopped(r) THEN {r}
                        ELSE IF StateRank(node_state(r, node_id)) >= StateRank("Dirty")
                             THEN update(cleanup_children(r, node_id), node_id)
                             ELSE {r}
                        : r \in pulled }
        IN  { IF Stopped(r) THEN r ELSE [mark_clean(r, node_id) EXCEPT !.depth = @ - 1]
              : r \in updated }

\* Runtime::update.  Node.value is always Some(cell), so line 309 never
\* returns; Computation::run always returns true.
update(R, node_id) ==
    IF Stopped(R) \/ node_id \notin DOMAIN R.nodes THEN {R}
    ELSE
        LET node == R.nodes[node_id]
            ran == IF node.kind = "Signal" THEN {R}
                   ELSE with_observer(R, node_id, node.computation)
        IN  { IF Stopped(r) THEN r ELSE dirty_subscribers(r, node_id) : r \in ran }

\* lines 287-291 of with_observer: take the previous pair (kept in the
\* caller's R), install the observer as observer and scope
install(R, obs) == [R EXCEPT !.observer = obs, !.scope = obs]

\* a with_observer that leaves the installed pair in place when func returns
restore_skipped(R, r) == r

\* lines 295-296 of with_observer: plain statements after func() returns, so
\* a panic in func skips them and the installed pair stays
restore(R, r) ==
    IF Stopped(r) THEN r ELSE [r EXCEPT !.observer = R.observer, !.scope = R.scope]

\* Runtime::with_observer around Computation::run
with_observer(R, obs, computation) ==
    { restore(R, r) : r \in Computation_run(install(R, obs), obs, computation) }

\* EffectComputation::run: take the old output out of the cell, call the
\* closure, store the new output
Computation_run(R, id, computation) ==
    LET R1 == [R EXCEPT !.trace = Append(@, <<"start", id, get_node_value(R, id)>>),
                        !.rerun = IF id \in R.requeued THEN @ \cup {id} ELSE @,
                        !.nodes = IF id \in DOMAIN @ THEN [@ EXCEPT ![id].value = Absent] ELSE @]
    IN  { IF Stopped(r) THEN r
          ELSE [r EXCEPT !.trace = Append(@, <<"end", id, r.ret>>),
                         !.nodes = IF id \in DOMAIN @ THEN [@ EXCEPT ![id].value = r.ret] ELSE @]
          : r \in run_body(R1, id, computation, 0) }

\* the closure's operations, in order; acc is the output so far (the value
\* read last); a "get_if" whose condition is false is passed over
run_body(R, self, ops, acc) ==
    IF Stopped(R) THEN {R}
    ELSE IF ops = <<>> THEN {[R EXCEPT !.ret = acc]}
    ELSE IF Head(ops).op = "get_if" /\ acc # Head(ops).val
         THEN run_body(R, self, Tail(ops), acc)
    ELSE UNION { run_body(r, self, Tail(ops),
                          IF Head(ops).op \in ReadOps /\ ~Stopped(r) THEN r.ret ELSE acc)
                 : r \in exec_op(R, self, Head(ops)) }

\* a read's value goes to the effect's log
Logged(R, self) ==
    IF Stopped(R) THEN R ELSE [R EXCEPT !.log[self] = Append(@, R.ret)]

\* one operation of a closure
exec_op(R, self, o) ==
    CASE o.op \in {"get", "get_if"} -> {Logged(Signal_get(R, o.id), self)}
      [] o.op = "get_untracked" -> {Logged(Signal_get_untracked(R, o.id), self)}
      [] o.op = "with" -> {Logged(Signal_with(R, o.id), self)}
      [] o.op = "with_untracked" -> {Logged(Signal_with_untracked(R, o.id), self)}
      [] o.op = "track" ->
            \* crate-level read of any node: Runtime::track + get_node_value
            {Logged([track(R, o.id) EXCEPT !.ret = get_node_value(R, o.id)], self)}
      [] o.op = "set" -> Signal_update(R, o.id, o.val)
      [] o.op = "set_untracked" -> {Signal_update_untracked(R, o.id, o.val)}
      [] o.op = "create_signal" -> {Signal_new(R, o.val)}
      [] o.op = "create_effect" -> Effect_new(R, o.body)

\* the `for effect_id in effects.drain(..)` loop of run_effects
run_effects_loop(R, effects) ==
    IF Stopped(R) \/ effects = <<>> THEN {R}
    ELSE UNION { run_effects_loop(r, Tail(effects))
                 : r \in update_if_necessary(R, Head(effects)) }

\* Runtime::run_effects: take the queue, update each entry, then store the
\* drained (now empty) vector back as the queue
run_effects(R) ==
    { IF Stopped(r) THEN r ELSE [r EXCEPT !.pending_effects = <<>>, !.draining = @ - 1]
      : r \in run_effects_loop([R EXCEPT !.pending_effects = <<>>, !.draining = @ + 1],
                               R.pending_effects) }

\* Signal::update (set is update with mem::replace): write, propagate,
\* flush; returns the previous value.  A missing node makes with_value
\* return None, `?` passes it on and the final unwrap panics.
Signal_update(R, id, v) ==
    LET old == with_value(R, id)
    IN  IF old = Absent THEN {Panic(R, "unwrap")}
        ELSE
            LET R1 == [Wrote(R, id, v, IF R.observer = NoNode THEN "set" ELSE "nested")
                         EXCEPT !.nodes[id].value = v]
            IN  UNION { { IF Stopped(r2) THEN r2 ELSE [r2 EXCEPT !.ret = old]
                          : r2 \in run_effects(r1) }
                        : r1 \in mark_descendants_dirty(R1, id) }

\* Effect::new: create the node Dirty, then update_if_necessary runs it
Effect_new(R, computation) ==
        LET id == R.next_key
            R1 == [create_effect(R, computation)
                     EXCEPT !.log = MapPut(@, id, <<>>),
                            !.hist = MapPut(@, id, EffectHist(R))]
        IN  { IF Stopped(r) THEN r ELSE [r EXCEPT !.ret = id]
              : r \in update_if_necessary(R1, id) }

\* ---- the program: top-level calls of the public API -----------------------
ReadMethods == {"get", "get_untracked", "with", "with_untracked"}

\* the closures a caller passes to create_effect, over the signal handles h
\* it holds: one read; a tracked read followed by a second read, a write, or
\* the creation of a nested signal or effect
Closures(h) ==
    { <<Op(m, s, 0, <<>>)>> : m \in ReadMethods, s \in h }
    \cup UNION { { <<Op("get", s, 0, <<>>), Op(m, t, 0, <<>>)>> : m \in {"get", "with_untracked"}, t \in h \ {s} }
                 : s \in h }
    \cup { <<Op("get", s, 0, <<>>), Op("set", t, v, <<>>)>> : s \in h, t \in h, v \in Values }
    \cup { <<Op("get", s, 0, <<>>), Op("create_signal", 0, 0, <<>>)>> : s \in h }
    \cup { <<Op("get", s, 0, <<>>), Op("create_effect", 0, 0, <<Op("get", t, 0, <<>>)>>)>> : s \in h, t \in h }

Init ==
    /\ nodes = <<>>
    /\ node_subscribers = <<>>
    /\ node_sources = <<>>
    /\ node_parents = <<>>
    /\ node_children = <<>>
    /\ scope = NoNode
    /\ observer = NoNode
    /\ pending_effects = <<>>
    /\ next_key = 1
    /\ fault = "none"
    /\ handles = {}
    /\ calls = 0
    /\ last = [op |-> "init", id |-> NoNode, val |-> 0, ret |-> Absent, key |-> 1,
               requeued |-> {}, rerun |-> {}, twice |-> FALSE]
    /\ trace = <<>>
    /\ log = <<>>
    /\ hist = <<>>

\* the call returned (or panicked) leaving the runtime r
Return(r, op, id, val) ==
    /\ ~r.exceeded
    /\ nodes' = r.nodes
    /\ node_subscribers' = r.node_subscribers
    /\ node_sources' = r.node_sources
    /\ node_parents' = r.node_parents
    /\ node_children' = r.node_children
    /\ scope' = r.scope
    /\ observer' = r.observer
    /\ pending_effects' = r.pending_effects
    /\ next_key' = r.next_key
    /\ fault' = r.fault
    /\ handles' = r.handles
    /\ calls' = calls + 1
    /\ last' = [op |-> op, id |-> id, val |-> val,
                ret |-> IF r.fault = "none" THEN r.ret ELSE Absent,
                key |-> next_key,
                requeued |-> r.requeued, rerun |-> r.rerun, twice |-> r.twice]
    /\ trace' = r.trace
    /\ log' = r.log
    /\ hist' = r.hist

CanCall == fault = "none" /\ calls < MaxCalls

\* the slot map is unbounded; the model stops creating top-level nodes at
\* MaxNodes keys (nodes created inside effect runs are bounded by MaxCalls)
CanCreate == CanCall /\ next_key <= MaxNodes

\* create_signal(v)
CreateSignal ==
    /\ CanCreate
    /\ \E v \in Values : Return(Signal_new(RT, v), "create_signal", next_key, v)

\* create_effect(closure)
CreateEffect ==
    /\ CanCreate
    /\ \E c \in Closures(handles) : \E r \in Effect_new(RT, c) :
          Return(r, "create_effect", next_key, 0)

\* signal.set(v) / signal.update(..)
Set ==
    /\ CanCall
    /\ \E s \in handles, v \in Values : \E r \in Signal_update(RT, s, v) :
          Return(r, "set", s, v)

\* signal.set_untracked(v) / signal.update_untracked(..)
SetUntracked ==
    /\ CanCall
    /\ \E s \in handles, v \in Values :
          Return(Signal_update_untracked(RT, s, v), "set_untracked", s, v)

\* signal.get() / get_untracked() / with(..) / with_untracked(..) outside
\* any effect
Read ==
    /\ CanCall
    /\ \E s \in handles :
          \/ Return(Signal_get(RT, s), "get", s, 0)
          \/ Return(Signal_get_untracked(RT, s), "get_untracked", s, 0)
          \/ Return(Signal_with(RT, s), "with", s, 0)
          \/ Return(Signal_with_untracked(RT, s), "with_untracked", s, 0)

Next == CreateSignal \/ CreateEffect \/ Set \/ SetUntracked \/ Read

Spec == Init /\ [][Next]_vars

\* ---- what the properties read ---------------------------------------------
Live == DOMAIN nodes
Effects == {e \in Live : nodes[e].kind = "Effect"}
Signals == {n \in Live : nodes[n].kind = "Signal"}
TopLevel(n) == n \notin DOMAIN node_parents

\* the values of the writes of kind `how` made to signal s, in order
RECURSIVE WritesOf(_, _)
WritesOf(ws, how) ==
    IF ws = <<>> THEN <<>>
    ELSE IF Head(ws).how = how THEN <<Head(ws).val>> \o WritesOf(Tail(ws), how)
    ELSE WritesOf(Tail(ws), how)

\* s has only been written from outside effect runs
NeverWrittenInside(s) ==
    \A i \in 1..Len(hist[s].writes) : hist[s].writes[i].how # "nested"

\* number of runs of effect e that started / ended during the last call
Count(e, what) ==
    Cardinality({i \in 1..Len(trace) : trace[i][1] = what /\ trace[i][2] = e})
Runs(e) == Count(e, "start")

\* e is a top-level effect whose closure is `log.push(s.get())`
Logger(e, s) ==
    /\ e \in Effects /\ TopLevel(e)
    /\ nodes[e].computation = <<Op("get", s, 0, <<>>)>>

\* s is a top-level signal that had not been written when e was created and
\* has since been written only by set calls made outside effect runs (and by
\* untracked writes)
OnlySetFromOutside(e, s) ==
    /\ s \in Signals /\ TopLevel(s)
    /\ hist[e].born[s] = 0
    /\ NeverWrittenInside(s)

\* C1: a top-level effect that logs s.get(), created on a fresh signal s, has
\* logged the initial value of s followed by the value of every set(v) call
\* made on s since, in order: one run at creation, one run per set, each
\* seeing the value just written.
C1_LogIsInitialThenSets ==
    fault = "none" =>
        \A e \in Effects : \A s \in handles :
            Logger(e, s) /\ OnlySetFromOutside(e, s) =>
                log[e] = <<hist[s].init>> \o WritesOf(hist[s].writes, "set")

\* C1 witness: the logger has run for its creation and for two set calls
C1_Witness ==
    /\ fault = "none"
    /\ \E e \in Effects : \E s \in handles :
          /\ Logger(e, s) /\ OnlySetFromOutside(e, s)
          /\ Len(WritesOf(hist[s].writes, "set")) >= 2
          /\ Len(log[e]) = 3
          /\ last.op = "set" /\ last.id = s

\* the last call was signal.set(v) on s and it returned
SetReturned(s) == last.op = "set" /\ last.id = s /\ fault = "none"

Sources(e) == MapGet(node_sources, e, {})
Subscribers(n) == MapGet(node_subscribers, n, {})

\* C2: when set(v) on signal S returns, every live effect that has S among
\* its recorded sources has been run during the call, whatever calls were
\* made before (here: for signals only ever written from outside effect
\* runs).  An effect can only gain a source while it runs, so the sources
\* after the call are those before it plus those of effects that ran.
C2_WriteRunsEverySubscriber ==
    \A s \in Signals : SetReturned(s) /\ NeverWrittenInside(s) =>
        \A e \in Effects : s \in Sources(e) => Runs(e) >= 1

\* C3: when a set call made outside any effect returns, every live node is
\* Clean and the pending-effects queue is empty.
C3_SettledAfterSet ==
    \A s \in Signals : SetReturned(s) =>
        /\ \A n \in Live : nodes[n].state = "Clean"
        /\ pending_effects = <<>>

\* nodes created during the last call
CreatedInLast == {n \in Live : n >= last.key}

\* C6: when an effect A has been re-run during the last call, no node that A
\* created during an earlier run (a node created under scope A before the
\* call) is still in the node store.
C6_RerunDisposesOwned ==
    fault = "none" =>
        \A a \in Effects : a < last.key /\ Runs(a) >= 1 =>
            \A n \in DOMAIN hist : hist[n].scope = a /\ n < last.key => n \notin Live

\* the operations of e's closure that act on node x
OpsOn(e, x) == {i \in 1..Len(nodes[e].computation) : nodes[e].computation[i].id = x
                    /\ nodes[e].computation[i].op \in ReadOps \cup {"set", "set_untracked"}}
ReadsOnlyUntracked(e, x) ==
    /\ OpsOn(e, x) # {}
    /\ \A i \in OpsOn(e, x) : nodes[e].computation[i].op \in {"with_untracked", "get_untracked"}

\* the signals written during the last call
WrittenInLast == {trace[i][2] : i \in {j \in 1..Len(trace) : trace[j][1] = "write"}}

\* C7: an effect that reads signal X only through with_untracked or
\* get_untracked is in no adjacency set of X, X is in none of its, and a set
\* call that writes only X does not run it.
C7_UntrackedIsolation ==
    \A e \in Effects : \A x \in handles :
        ReadsOnlyUntracked(e, x) =>
            /\ e \notin Subscribers(x)
            /\ x \notin Sources(e)
            /\ (last.op = "set" /\ WrittenInLast = {x} /\ e < last.key => Runs(e) = 0)

\* C7 witness: set(v) on X has just returned, other effects ran, and an
\* effect that reads X only untracked (and has run before) stayed idle
C7_Witness ==
    \E e \in Effects : \E x \in handles :
        /\ ReadsOnlyUntracked(e, x) /\ Len(log[e]) >= 1 /\ e < last.key
        /\ SetReturned(x) /\ WrittenInLast = {x}
        /\ \E f \in Effects : Runs(f) >= 1

\* C8: once an effect whose closure reads X with `with` has run, it is a
\* subscriber of X and X is one of its sources.
C8_WithIsTracked ==
    \A e \in Effects : \A x \in handles :
        /\ \E i \in OpsOn(e, x) : nodes[e].computation[i].op = "with"
        /\ \E i \in 1..Len(log[e]) : TRUE
        => e \in Subscribers(x) /\ x \in Sources(e)

\* C10: a signal just created is Clean and nothing ran; every effect created
\* during the last call (by a top-level create_effect or by one inside a
\* running effect) has run exactly once, with no previous output, the call
\* did not panic and the effect is Clean.
C10_CreateRunsOnce ==
    /\ last.op = "create_signal" =>
          /\ nodes[last.id].state = "Clean"
          /\ \A i \in 1..Len(trace) : trace[i][1] # "start"
    /\ \A e \in Effects \cap CreatedInLast :
          /\ fault = "none"
          /\ Runs(e) = 1
          /\ \A i \in 1..Len(trace) :
                trace[i][1] = "start" /\ trace[i][2] = e => trace[i][3] = Absent
          /\ nodes[e].state = "Clean"

\* C23: set_untracked / update_untracked on a signal in the store returns
\* the previous value and changes the stored value of that signal and
\* nothing else: every node's state, kind and computation, every other
\* node's value, both adjacency maps, both ownership maps, the pending
\* queue, observer and scope stay as they were, and no effect runs (no run
\* starts and no effect's log grows), whether or not the signal has
\* subscribers.
C23_UntrackedWriteOnlyValue ==
    [][/\ calls' = calls + 1 /\ last'.op = "set_untracked" /\ last'.id \in DOMAIN nodes
       => /\ fault' = "none"
          /\ last'.ret = nodes[last'.id].value
          /\ nodes' = [nodes EXCEPT ![last'.id].value = last'.val]
          /\ UNCHANGED <<node_subscribers, node_sources, node_parents, node_children,
                         pending_effects, observer, scope, next_key, log>>
          /\ \A i \in 1..Len(trace') : trace'[i][1] # "start"]_vars

\* C23 witness: set_untracked has changed the value of a Clean signal that
\* a logging effect subscribes to; the effect has not logged the new value
C23_Witness ==
    /\ last.op = "set_untracked" /\ fault = "none"
    /\ last.id \in Signals /\ nodes[last.id].state = "Clean"
    /\ nodes[last.id].value = last.val /\ last.ret # last.val
    /\ \E e \in Subscribers(last.id) :
          /\ Logger(e, last.id) /\ nodes[e].state = "Clean"
          /\ log[e][Len(log[e])] # last.val

\* ---- crate-level graphs: effects that read other effects ---------------------
\* Inside the crate a computation can read any node through Runtime::track
\* and get_node_value, so an effect can be a source of another effect.  The
\* closures of SpecGraph read one node, or two different nodes, of those
\* that exist when the effect is created.
GraphClosures(n) ==
    { <<Op("track", a, 0, <<>>)>> : a \in n }
    \cup UNION { { <<Op("track", a, 0, <<>>), Op("track", b, 0, <<>>)>> : b \in n \ {a} }
                 : a \in n }

GraphCanCall == fault = "none" /\ calls < MaxGraphCalls

\* Signal::new from the crate
GraphCreateSignal ==
    /\ GraphCanCall /\ next_key <= MaxGraphNodes
    /\ Return(Signal_new(RT, 0), "create_signal", next_key, 0)

\* Effect::new with a closure that reads nodes through the runtime
GraphCreateEffect ==
    /\ GraphCanCall /\ next_key <= MaxGraphNodes
    /\ \E c \in GraphClosures(Live) : \E r \in Effect_new(RT, c) :
          Return(r, "create_effect", next_key, 0)

\* Signal::update: the write, mark_descendants_dirty, run_effects
GraphSet ==
    /\ GraphCanCall
    /\ \E s \in handles, v \in Values : \E r \in Signal_update(RT, s, v) :
          Return(r, "set", s, v)

GraphNext == GraphCreateSignal \/ GraphCreateEffect \/ GraphSet

SpecGraph == Init /\ [][GraphNext]_vars

\* the start and end events of the effects in es, in the order they
\* happened during the last call
RECURSIVE RunEvents(_, _)
RunEvents(t, es) ==
    IF t = <<>> THEN <<>>
    ELSE IF Head(t)[1] \in {"start", "end"} /\ Head(t)[2] \in es
         THEN <<<<Head(t)[1], Head(t)[2]>>>> \o RunEvents(Tail(t), es)
         ELSE RunEvents(Tail(t), es)

Reads1(e, a) == nodes[e].computation = <<Op("track", a, 0, <<>>)>>
Reads2(e, a, b) == nodes[e].computation = <<Op("track", a, 0, <<>>), Op("track", b, 0, <<>>)>>

\* signal a -> effect b -> effect c, and nothing else attached to b and c
Chain(a, b, c) ==
    /\ a \in Signals /\ b \in Effects /\ c \in Effects
    /\ Reads1(b, a) /\ Reads1(c, b)
    /\ Subscribers(a) = {b} /\ Subscribers(b) = {c} /\ Subscribers(c) = {}

\* C4: for a chain signal A -> effect B -> effect C with A Clean, writing A
\* (mark_descendants_dirty(A), then run_effects) runs B once, then C once,
\* B's run ending before C's starts, and C reads the output B has just
\* produced.
C4_ChainRunsInOrder ==
    [][\A a, b, c \in Live :
          /\ Chain(a, b, c) /\ nodes[a].state = "Clean"
          /\ last'.op = "set" /\ last'.id = a /\ calls' = calls + 1
          => /\ fault' = "none"
             /\ RunEvents(trace', {b, c}) =
                   << <<"start", b>>, <<"end", b>>, <<"start", c>>, <<"end", c>> >>
             /\ nodes'[b].value = last'.val
             /\ log'[c][Len(log'[c])] = last'.val
             /\ nodes'[c].value = last'.val]_vars

\* C4 witness: a chain has just been flushed by a second write to A that
\* changed its value
C4_Witness ==
    \E a, b, c \in Live :
        /\ Chain(a, b, c) /\ SetReturned(a)
        /\ Len(hist[a].writes) >= 2
        /\ hist[a].writes[Len(hist[a].writes) - 1].val # last.val
        /\ Runs(b) = 1 /\ Runs(c) = 1

\* signal s -> effects e1, e2 -> effect e3 reading both
Diamond(s, e1, e2, e3) ==
    /\ s \in Signals /\ {e1, e2, e3} \subseteq Effects /\ e1 # e2
    /\ Reads1(e1, s) /\ Reads1(e2, s)
    /\ Reads2(e3, e1, e2) \/ Reads2(e3, e2, e1)

\* position of the first event <<what, e>> of the last call (0: none)
Pos(what, e) ==
    LET is == {i \in 1..Len(trace) : trace[i][1] = what /\ trace[i][2] = e}
    IN  IF is = {} THEN 0 ELSE CHOOSE i \in is : \A j \in is : i <= j

\* C5: in a diamond S -> E1, E2 -> E3, a write to S runs E1 once, E2 once
\* and E3 once, and E3's run starts after E1's and E2's runs have ended.
C5_DiamondRunsOnceInOrder ==
    \A s, e1, e2, e3 \in Live :
        Diamond(s, e1, e2, e3) /\ SetReturned(s) /\ e3 < last.key =>
            /\ Runs(e1) = 1 /\ Runs(e2) = 1 /\ Runs(e3) = 1
            /\ Pos("end", e1) < Pos("start", e3)
            /\ Pos("end", e2) < Pos("start", e3)

\* ---- the runtime called from inside the crate ---------------------------------
\* Runtime's methods are public inside the crate.  SpecRuntime calls them one
\* at a time: create_effect with and without the first run, with_observer
\* around a track (an effect can observe any node, itself included, so the
\* subscriber graph can hold cycles), mark_descendants_dirty, run_effects and update_if_necessary on
\* their own.  Nodes are left in every state the calls can leave them in.
MaxRtNodes == 3      \* as MaxNodes, for SpecRuntime
MaxRtCalls == 4      \* as MaxCalls, for SpecRuntime

\* the computations of SpecRuntime's effects: read nothing, or one node
RtClosures(n) == {<<>>} \cup { <<Op("track", a, 0, <<>>)>> : a \in n }

RtCanCall == fault = "none" /\ calls < MaxRtCalls

\* runtime.create_signal(0)
RtCreateSignal ==
    /\ RtCanCall /\ next_key <= MaxRtNodes
    /\ Return(Signal_new(RT, 0), "create_signal", next_key, 0)

\* runtime.create_effect(None, computation): the node is Dirty, nothing runs
RtCreateEffect ==
    /\ RtCanCall /\ next_key <= MaxRtNodes
    /\ \E c \in RtClosures(Live) :
          Return([create_effect(RT, c) EXCEPT !.log = MapPut(@, next_key, <<>>),
                                              !.hist = MapPut(@, next_key, EffectHist(RT)),
                                              !.ret = next_key],
                 "runtime.create_effect", next_key, 0)

\* Effect::new: runtime.create_effect, then the first run
RtNewEffect ==
    /\ RtCanCall /\ next_key <= MaxRtNodes
    /\ \E c \in RtClosures(Live) : \E r \in Effect_new(RT, c) :
          Return(r, "create_effect", next_key, 0)

\* the bodies handed to with_observer: track one node, or two
RtBodies(n) == { <<a>> : a \in n } \cup { ab \in n \X n : ab[1] < ab[2] }

RECURSIVE track_each(_, _)
\* runtime.track(id) for each id of the body, in order
track_each(R, ids) ==
    IF ids = <<>> THEN R ELSE track_each(track(R, Head(ids)), Tail(ids))

\* runtime.with_observer(o, || { runtime.track(a); .. }) for an effect o
RtObserve ==
    /\ RtCanCall
    /\ \E o \in Effects : \E body \in RtBodies(Live) :
          Return(restore(RT, track_each(install(RT, o), body)), "with_observer", o, 0)

\* every node in the store is Clean
AllClean == \A n \in Live : nodes[n].state = "Clean"

\* runtime.mark_descendants_dirty(n); last.val tells whether the call was
\* made on a graph of Clean nodes
RtMark ==
    /\ RtCanCall
    /\ \E n \in Live : \E r \in mark_descendants_dirty(RT, n) :
          Return(r, "mark_descendants_dirty", n, IF AllClean THEN 1 ELSE 0)

\* runtime.run_effects()
RtRunEffects ==
    /\ RtCanCall
    /\ \E r \in run_effects(RT) : Return(r, "run_effects", NoNode, 0)

\* the call before this one was update_if_necessary(n) too
Repeated(n) == last.op = "update_if_necessary" /\ last.id = n

\* runtime.update_if_necessary(n); last.val is 0 for a first call on n, and
\* for a call that repeats the one before it 1 + the number of computations
\* that one ran
RtUpdateIfNecessary ==
    /\ RtCanCall
    /\ \E n \in Live : \E r \in update_if_necessary(RT, n) :
          Return(r, "update_if_necessary", n,
                 IF Repeated(n)
                 THEN 1 + Cardinality({i \in 1..Len(trace) : trace[i][1] = "start"})
                 ELSE 0)

\* runtime.with_observer(o, || runtime.mark_descendants_dirty(n)) for an
\* effect o: the walk as a write made inside o's run starts it; last.val is
\* the observer
RtMarkObserved ==
    /\ RtCanCall
    /\ \E o \in Effects : \E n \in Live :
          \E r \in mark_descendants_dirty(install(RT, o), n) :
             Return(restore(RT, r), "with_observer.mark", n, o)

RtNext ==
    \/ RtCreateSignal \/ RtCreateEffect \/ RtNewEffect \/ RtObserve
    \/ RtMark \/ RtMarkObserved \/ RtRunEffects \/ RtUpdateIfNecessary

SpecRuntime == Init /\ [][RtNext]_vars

\* C11: when update_if_necessary(id) is called again right after it returned,
\* with nothing done in between, the second call runs no computation, visits
\* and tracks nothing, and leaves the node store, both adjacency maps, both
\* ownership maps, the pending queue, observer and scope as they were; the
\* node (when it is in the store) is Clean before and after.
C11_SecondUpdateIsNoOp ==
    [][/\ Repeated(last'.id) /\ last'.op = "update_if_necessary" /\ calls' = calls + 1
       => /\ fault' = "none"
          /\ trace' = <<>>
          /\ nodes[last.id].state = "Clean"
          /\ UNCHANGED <<nodes, node_subscribers, node_sources, node_parents,
                         node_children, pending_effects, observer, scope, next_key>>]_vars

\* C11 witness: a second update_if_necessary has returned on an effect whose
\* first call ran a computation
C11_Witness ==
    /\ last.op = "update_if_necessary" /\ last.val >= 2 /\ fault = "none"
    /\ last.id \in Effects /\ nodes[last.id].value # Absent

\* C14: one propagation pass (a write from outside any effect: one
\* mark_descendants_dirty, then one run_effects) runs no effect's computation
\* more than once, whatever states earlier passes left behind.
C14_OneRunPerPass ==
    \A s \in Signals : SetReturned(s) => \A e \in Effects : Runs(e) <= 1

\* the nodes that can be reached from the nodes of S over subscriber edges
RECURSIVE Downstream(_)
Downstream(S) ==
    LET T == S \cup UNION { Subscribers(n) : n \in S }
    IN  IF T = S THEN S ELSE Downstream(T)

\* the nodes reachable from root over one or more subscriber edges
Reachable(root) == Downstream(Subscribers(root))

\* C17: on a graph of Clean nodes, mark_descendants_dirty(root) returns with
\* root DirtyMarked, every other node reachable from root over subscriber
\* edges in Check and every remaining node Clean, and changes no node's kind
\* or value; this holds for every successor state, so for every order in
\* which the subscriber sets are iterated.
C17_MarksExactlyReachable ==
    [][/\ AllClean
       /\ last'.op = "mark_descendants_dirty" /\ calls' = calls + 1
       => /\ fault' = "none"
          /\ DOMAIN nodes' = DOMAIN nodes
          /\ \A n \in Live :
                /\ nodes'[n].state =
                      IF n = last'.id THEN "DirtyMarked"
                      ELSE IF n \in Reachable(last'.id) THEN "Check" ELSE "Clean"
                /\ nodes'[n].kind = nodes[n].kind
                /\ nodes'[n].value = nodes[n].value]_vars

\* C17 witness: mark_descendants_dirty has returned on a graph that was
\* Clean, the root has two subscribers at least (so the order of iteration
\* was open) and both are in Check
C17_Witness ==
    /\ last.op = "mark_descendants_dirty" /\ last.val = 1 /\ fault = "none"
    /\ Cardinality(Subscribers(last.id) \ {last.id}) >= 2
    /\ \A n \in Subscribers(last.id) \ {last.id} : nodes[n].state = "Check"

\* C18: mark_descendants_dirty(root) returns, and has visited no node more
\* than once, whatever the subscriber graph and the states of the nodes.
C18_MarkTerminatesVisitingOnce ==
    last.op = "mark_descendants_dirty" => fault # "hang" /\ ~last.twice

\* the entries of the queue q from position k on, as a set
Queued(q, k) == { q[i] : i \in k..Len(q) }

\* C21: a mark_descendants_dirty(root) made while effect o is the observer
\* leaves the entries already in the pending queue in place and appends only
\* Effect nodes; o is never among the appended entries, also when o
\* subscribes to root; every Effect other than o that the walk visited is
\* among them: every other subscriber of root that was Clean or Dirty, every node
\* the walk moved from Clean to Check, and, on a graph of Clean nodes with a
\* Clean root, exactly the Effects reachable from root other than root and o.
C21_ObserverNeverQueued ==
    [][/\ last'.op = "with_observer.mark" /\ calls' = calls + 1 /\ fault' = "none"
       => LET root == last'.id
              o == last'.val
              added == Queued(pending_effects', Len(pending_effects) + 1)
              walked == nodes[root].state # "DirtyMarked"
          IN  /\ SubSeq(pending_effects', 1, Len(pending_effects)) = pending_effects
              /\ added \subseteq Effects
              /\ o \notin added
              /\ \A n \in Effects \ {root, o} :
                    \/ walked /\ n \in Subscribers(root) /\ nodes[n].state \in {"Clean", "Dirty"}
                    \/ nodes[n].state = "Clean" /\ nodes'[n].state = "Check"
                    => n \in added
              /\ AllClean => added = (Reachable(root) \cap Effects) \ {root, o}]_vars

\* C21 witness: the walk has returned from a signal that the observer and
\* another effect subscribe to; the other effect is in the queue and the
\* observer is not
C21_Witness ==
    /\ last.op = "with_observer.mark" /\ fault = "none"
    /\ last.id \in Signals /\ last.val \in Subscribers(last.id)
    /\ nodes[last.val].state = "Check"
    /\ \E e \in Subscribers(last.id) \ {last.val} : e \in Queued(pending_effects, 1)
    /\ last.val \notin Queued(pending_effects, 1)

\* ---- closures that branch, and closures that write before they read ------------
\* SpecBranch makes the calls of Spec with other closures: a logger, a
\* closure whose second read depends on the value of the first
\* (`if s.get() == 0 { t.get(); }`), and closures that write a signal (which
\* runs the signal's subscribers inside the writer's run) and then read a
\* signal or create one.
BranchClosures(h) ==
    { <<Op("get", s, 0, <<>>)>> : s \in h }
    \cup UNION { { <<Op("get", s, 0, <<>>), Op("get_if", t, 0, <<>>)>> : t \in h \ {s} }
                 : s \in h }
    \cup { <<Op("set", t, v, <<>>), Op("get", s, 0, <<>>)>> : s \in h, t \in h, v \in Values }
    \cup { <<Op("set", t, v, <<>>), Op("create_signal", 0, 0, <<>>)>> : t \in h, v \in Values }

\* create_effect(closure)
BranchCreateEffect ==
    /\ CanCreate
    /\ \E c \in BranchClosures(handles) : \E r \in Effect_new(RT, c) :
          Return(r, "create_effect", next_key, 0)

BranchNext == CreateSignal \/ BranchCreateEffect \/ Set

SpecBranch == Init /\ [][BranchNext]_vars

\* ---- the adjacency maps and the ownership maps ---------------------------------
\* every id the slot map has handed out
Ids == 1..(next_key - 1)

\* C12: node B is in subscribers[A] exactly when node A is in sources[B],
\* for live and for removed nodes, after every call: tracked reads, effect
\* runs, and the removal of a node by the loop of cleanup_children.
C12_AdjacencyMirrored ==
    \A a, b \in Ids : b \in Subscribers(a) <=> a \in Sources(b)

\* C12 witness: a node that an effect had read with get has just been
\* removed, and other edges are still recorded
C12_Witness ==
    /\ last.op = "dispose" /\ last.id \notin Live
    /\ \E e \in Effects :
          /\ \E i \in OpsOn(e, last.id) : nodes[e].computation[i].op = "get"
          /\ Len(log[e]) >= 1
          /\ last.id \notin Sources(e)
    /\ \E a \in Live : Subscribers(a) # {}

Parent(n) == MapGet(node_parents, n, NoNode)
Children(n) == MapGet(node_children, n, {})

\* the owners of n, following node_parents for k steps at most
RECURSIVE Ancestors(_, _)
Ancestors(n, k) ==
    IF k = 0 \/ Parent(n) = NoNode THEN {}
    ELSE {Parent(n)} \cup Ancestors(Parent(n), k - 1)

\* C13: a node created under scope P has parent P and is in children[P]; c
\* is in children[p] exactly when parent[c] = p; no node is its own child or
\* its own ancestor.
C13_OwnershipForest ==
    /\ \A n \in Live : hist[n].scope # NoNode =>
          Parent(n) = hist[n].scope /\ n \in Children(hist[n].scope)
    /\ \A p, c \in Ids : c \in Children(p) <=> Parent(c) = p
    /\ \A n \in Live : n \notin Children(n) /\ n \notin Ancestors(n, next_key)

\* ---- the pending queue during a drain ------------------------------------------
\* C15: when a set call made outside any effect returns, every effect that
\* mark_descendants_dirty queued while run_effects was draining has not been
\* run since it was queued, and is in the pending queue.
C15_QueuedDuringDrainKept ==
    \A s \in Signals : SetReturned(s) =>
        /\ last.rerun = {}
        /\ \A e \in last.requeued :
              \E k \in 1..Len(pending_effects) : pending_effects[k] = e

\* ---- the edges of an effect after a run ----------------------------------------
\* index of the event that began the latest run of e in the last call
LastStart(e) ==
    LET is == {i \in 1..Len(trace) : trace[i][1] = "start" /\ trace[i][2] = e}
    IN  IF is = {} THEN 0 ELSE CHOOSE i \in is : \A j \in is : j <= i

\* the nodes e tracked during its latest run
TrackedInLastRun(e) ==
    { trace[i][3] : i \in { j \in 1..Len(trace) :
                               j > LastStart(e) /\ trace[j][1] = "track" /\ trace[j][2] = e } }

\* C16: after a call in which effect E ran, the recorded sources of E are
\* exactly the nodes E read with a tracked read during its latest run.
C16_SourcesAreLastReads ==
    fault = "none" =>
        \A e \in Effects : Runs(e) >= 1 => Sources(e) = TrackedInLastRun(e)

\* ---- observer and scope --------------------------------------------------------
\* the runs that are open after the first k events of t, outermost first
RECURSIVE OpenRuns(_, _)
OpenRuns(t, k) ==
    IF k = 0 THEN <<>>
    ELSE LET st == OpenRuns(t, k - 1)
         IN  IF t[k][1] = "start" THEN Append(st, t[k][2])
             ELSE IF t[k][1] = "end" THEN SubSeq(st, 1, Len(st) - 1)
             ELSE st

\* the effect whose run is the innermost one open after k events
Innermost(t, k) ==
    LET st == OpenRuns(t, k) IN IF st = <<>> THEN NoNode ELSE st[Len(st)]

\* C19: when a call returns, observer and scope are what they were before it
\* (none); during the call every tracked read was attributed to the effect
\* whose run was the innermost one open, and every node was created under
\* that effect as scope: also after a run nested in that run had returned.
C19_ObserverScopeRestored ==
    fault = "none" =>
        /\ observer = NoNode /\ scope = NoNode
        /\ \A i \in 1..Len(trace) :
              /\ trace[i][1] = "track" => trace[i][2] = Innermost(trace, i - 1)
              /\ trace[i][1] = "create" => trace[i][3] = Innermost(trace, i - 1)

\* C19 witness: inside the run of effect a the run of another effect b began
\* and ended, and a then made a tracked read
C19_Witness ==
    /\ fault = "none" /\ observer = NoNode /\ scope = NoNode
    /\ \E j, k \in 1..Len(trace) :
          /\ j < k
          /\ trace[j][1] = "end" /\ Len(OpenRuns(trace, j)) = 1
          /\ trace[k][1] = "track" /\ trace[k][2] = Innermost(trace, j)
          /\ trace[k][2] # trace[j][2]

\* C20: when a call has ended in a panic, observer and scope are what they
\* were before the call (none).
C20_RestoredAfterPanic ==
    fault # "none" => observer = NoNode /\ scope = NoNode

\* ---- stale handles ---------------------------------------------------------
\* In Spec no node ever leaves the node store: create_node files a child
\* under its own id, so cleanup_children of the owner finds nothing, and
\* cleanup_children of the child panics on its recursive borrow (C6, C10).
\* SpecStale applies the disposal itself (the body of cleanup_children's
\* loop, lines 364-383) to a node that was created inside an effect run, and
\* then uses the handles that still name it.
StaleDispose ==
    /\ CanCall
    /\ \E n \in Live \cap DOMAIN node_parents : Return(dispose(RT, n), "dispose", n, 0)

\* create_effect(|_| t.get()) on the handle t of a signal that was created
\* inside an effect run (the handles that can go stale)
StaleReader ==
    /\ CanCall
    /\ \E t \in handles \cap DOMAIN node_parents :
          \E r \in Effect_new(RT, <<Op("get", t, 0, <<>>)>>) :
             Return(r, "create_effect", next_key, 0)

StaleNext == Next \/ StaleDispose \/ StaleReader

SpecStale == Init /\ [][StaleNext]_vars

HandleReads == {"get", "get_untracked", "with", "with_untracked"}
HandleWrites == {"set", "set_untracked"}

MaxDisposedCalls == 5   \* calls in one behaviour of SpecDisposed: the graph is
                        \* built within MaxRtCalls, removals and calls on
                        \* removed ids can follow

DisposedCanCall == fault = "none" /\ calls < MaxDisposedCalls

\* runtime.with_observer(o, || Signal::new(0)): a signal owned by effect o
DisposedCreateOwned ==
    /\ DisposedCanCall /\ next_key <= MaxRtNodes
    /\ \E o \in Effects :
          Return(restore(RT, Signal_new(install(RT, o), 0)), "create_signal", next_key, 0)

\* lines 364-383 applied to an owned node
DisposedDispose ==
    /\ DisposedCanCall
    /\ \E n \in Live \cap DOMAIN node_parents : Return(dispose(RT, n), "dispose", n, 0)

\* the ids of nodes that have been removed from the store
Disposed == Ids \ Live

\* runtime.get_node_value(n) on a removed id
DisposedGetNodeValue ==
    /\ DisposedCanCall
    /\ \E n \in Disposed :
          Return([RT EXCEPT !.ret = get_node_value(RT, n)], "get_node_value", n, 0)

\* runtime.track(n) on a removed id, outside any observer and inside
\* with_observer(o, ..); last.val is the observer
DisposedTrack ==
    /\ DisposedCanCall
    /\ \E n \in Disposed :
          \/ Return(track(RT, n), "track", n, NoNode)
          \/ \E o \in Effects :
                Return(restore(RT, track(install(RT, o), n)), "track", n, o)

\* runtime.mark_descendants_dirty(n) on a removed id
DisposedMark ==
    /\ DisposedCanCall
    /\ \E n \in Disposed : \E r \in mark_descendants_dirty(RT, n) :
          Return(r, "mark_descendants_dirty", n, 0)

\* runtime.update_if_necessary(n) on a removed id
DisposedUpdateIfNecessary ==
    /\ DisposedCanCall
    /\ \E n \in Disposed : \E r \in update_if_necessary(RT, n) :
          Return(r, "update_if_necessary", n, 0)

DisposedNext ==
    \/ RtCreateSignal \/ RtNewEffect \/ RtObserve
    \/ DisposedCreateOwned \/ DisposedDispose
    \/ DisposedGetNodeValue \/ DisposedTrack \/ DisposedMark \/ DisposedUpdateIfNecessary

SpecDisposed == Init /\ [][DisposedNext]_vars

DisposedOps == {"get_node_value", "track", "mark_descendants_dirty", "update_if_necessary"}

====
